---------------------------- MODULE Spec2Model ----------------------------
(***************************************************************************)
(* A model of src/lidar.py of the 3D-houses repository: the zone lookup    *)
(* get_zone, the value type HeightDataImage (naming, complement), its      *)
(* download(), and the orchestration done by Building (construction and    *)
(* load_data).                                                             *)
(*                                                                         *)
(* Strings are sequences of one-character strings, so that concatenation,  *)
(* upper(), lower() and the "02d" format are computed, not assumed.        *)
(* Points are pairs of integers of the planar reference system; a polygon  *)
(* is the sequence of the vertices of a convex ring.                       *)
(***************************************************************************)
EXTENDS Integers, Sequences, FiniteSets, TLC

\* ------------------------------------------------------------------ bounds
\* The zone lookup is exercised on every integer point of
\* (-GridMargin..GridMax) squared, plus the far point of the end-to-end
\* scenario; the datasets cover (0,0)-(30,30).
GridMargin == 2
GridMax == 32
\* Zones 0..MaxZone (one and two digits) plus a few larger ids are named.
MaxZone == 12
\* Longest chain of complement() calls followed from one constructed ref.
MaxChain == 3
\* Building requests made of one process.
NumProcs == 2
\* download() calls a caller makes directly on refs, one after the other.
MaxCalls == 3
\* Longest list of building units of an Address.
MaxUnits == 2
\* get_building_shape() calls followed on one Address.
MaxShapeCalls == 3
\* Revisions of the geometries in the building registry during that time.
MaxEdits == 2
\* load_data() calls followed on one Building (the constructor's and the
\* caller's).
MaxLoads == 2

\* ------------------------------------------------------------------ strings
UpperChar(c) ==
    CASE c = "d" -> "D" [] c = "s" -> "S" [] c = "t" -> "T" [] c = "m" -> "M"
      [] c = "c" -> "C" [] c = "h" -> "H" [] c = "i" -> "I" [] c = "v" -> "V"
      [] OTHER -> c

LowerChar(c) ==
    CASE c = "D" -> "d" [] c = "S" -> "s" [] c = "T" -> "t" [] c = "M" -> "m"
      [] c = "C" -> "c" [] c = "H" -> "h" [] c = "I" -> "i" [] c = "V" -> "v"
      [] OTHER -> c

\* str.upper() and str.lower()
upper(s) == [i \in 1..Len(s) |-> UpperChar(s[i])]
lower(s) == [i \in 1..Len(s) |-> LowerChar(s[i])]

DigitChar(d) ==
    CASE d = 0 -> "0" [] d = 1 -> "1" [] d = 2 -> "2" [] d = 3 -> "3"
      [] d = 4 -> "4" [] d = 5 -> "5" [] d = 6 -> "6" [] d = 7 -> "7"
      [] d = 8 -> "8" [] OTHER -> "9"

\* The decimal digits of a natural number, most significant first.
RECURSIVE Digits(_)
Digits(n) == IF n < 10 THEN <<DigitChar(n)>>
             ELSE Digits(n \div 10) \o <<DigitChar(n % 10)>>

\* format(z, "02d"): the sign, then the digits zero-padded so that sign and
\* digits together are at least two characters wide.
Format02d(z) ==
    LET sign == IF z < 0 THEN <<"-">> ELSE <<>>
        digs == Digits(IF z < 0 THEN -z ELSE z)
    IN  IF Len(sign) + Len(digs) < 2 THEN sign \o <<"0">> \o digs
        ELSE sign \o digs

\* ------------------------------------------------------------------ geometry
\* z component of (b - a) x (p - a): > 0 when p is left of the line a -> b.
Cross(a, b, p) ==
    (b[1] - a[1]) * (p[2] - a[2]) - (b[2] - a[2]) * (p[1] - a[1])

\* The sides a -> b of a ring, the last vertex joined to the first.
Sides(poly) ==
    {<<poly[i], poly[(i % Len(poly)) + 1]>> : i \in 1..Len(poly)}

\* shapely's polygon.contains(point): the point is in the interior of the
\* polygon; a point of the boundary is not contained.
contains(poly, p) ==
    \/ \A s \in Sides(poly) : Cross(s[1], s[2], p) > 0
    \/ \A s \in Sides(poly) : Cross(s[1], s[2], p) < 0

\* The point is in the closed polygon: interior or boundary.
covers(poly, p) ==
    \/ \A s \in Sides(poly) : Cross(s[1], s[2], p) >= 0
    \/ \A s \in Sides(poly) : Cross(s[1], s[2], p) =< 0

\* The zone datasets read by geopandas.read_file: rows in file order, the
\* zone number in the first column, the geometry in the second.
\* Three triangles covering (0,0)-(30,30).
KbvTriangles ==
    << <<1, << <<0, 0>>, <<30, 0>>, <<0, 30>> >> >>,
       <<2, << <<30, 0>>, <<30, 30>>, <<20, 10>> >> >>,
       <<3, << <<30, 30>>, <<0, 30>>, <<20, 10>> >> >> >>

\* Four square sheets, numbered as map sheets are (not by row position).
KbvSheets ==
    << <<16, << <<15, 15>>, <<30, 15>>, <<30, 30>>, <<15, 30>> >> >>,
       <<15, << <<0, 15>>, <<15, 15>>, <<15, 30>>, <<0, 30>> >> >>,
       <<24, << <<15, 0>>, <<30, 0>>, <<30, 15>>, <<15, 15>> >> >>,
       <<23, << <<0, 0>>, <<15, 0>>, <<15, 15>>, <<0, 15>> >> >> >>

\* Two sheets that overlap in the strip 10 < x < 20.
KbvOverlap ==
    << <<8, << <<10, 0>>, <<30, 0>>, <<30, 30>>, <<10, 30>> >> >>,
       <<7, << <<0, 0>>, <<20, 0>>, <<20, 30>>, <<0, 30>> >> >> >>

Datasets == {KbvTriangles, KbvSheets, KbvOverlap}

Points ==
    (((0 - GridMargin)..GridMax) \X ((0 - GridMargin)..GridMax)) \cup {<<100, 100>>}

\* ------------------------------------------------------------------ get_zone
\* zone = kbv[kbv.geometry.contains(point)]: the rows whose geometry
\* contains the point, in file order.
ZoneRows(kbv, p) == SelectSeq(kbv, LAMBDA row : contains(row[2], p))

GetZoneFirstRow(kbv, p) == [ok |-> TRUE, zone |-> kbv[1][1]]

GetZoneDefaultRow(kbv, p) ==
    LET zone == ZoneRows(kbv, p)
    IN  IF Len(zone) = 0 THEN [ok |-> TRUE, zone |-> kbv[1][1]]
        ELSE [ok |-> TRUE, zone |-> zone[1][1]]

\* get_zone(x, y): zone.iloc[0, 0], which raises IndexError when the
\* selection is empty.
get_zone(kbv, p) ==
    LET zone == ZoneRows(kbv, p)
    IN  IF Len(zone) = 0 THEN [ok |-> FALSE, err |-> "IndexError"]
        ELSE [ok |-> TRUE, zone |-> zone[1][1]]

\* ------------------------------------------------------------------ HeightDataImage
\* Python's None, for a variable that holds an object (a record), a string
\* or a tuple.
None == [none |-> TRUE]
NoErr == "none"
NoTuple == <<>>

StrDSM == <<"D", "S", "M">>
StrDTM == <<"D", "T", "M">>
ExtTif == <<".", "t", "i", "f">>
ExtZip == <<".", "z", "i", "p">>
Res1m  == <<"1", "m">>
Res5m  == <<"5", "m">>
VerII  == <<"I", "I">>
VerI   == <<"I">>

\* pathlib.Path(path): a path is kept as its components; "." components and
\* empty components (doubled or trailing slashes) are dropped.
PathOf(path) == SelectSeq(path, LAMBDA c : c \notin {".", ""})

\* str(base_path): the components joined again, "." for the empty path.
PathStr(base) == IF base = <<>> THEN <<".">> ELSE base

NewImageUnchecked(zone, data_type, resolution, dhmv_version, path) ==
    [ok |-> TRUE,
     obj |-> [zone |-> zone, data_type |-> upper(data_type), res |-> resolution,
              dhmv_version |-> dhmv_version, base_path |-> PathOf(path)]]

\* HeightDataImage.__init__: the object, or the RuntimeWarning raised for a
\* data_type that is not DTM or DSM.
NewImage(zone, data_type, resolution, dhmv_version, path) ==
    IF upper(data_type) \notin {StrDTM, StrDSM}
    THEN [ok |-> FALSE, err |-> "RuntimeWarning"]
    ELSE [ok |-> TRUE,
          obj |-> [zone |-> zone, data_type |-> upper(data_type),
                   res |-> resolution, dhmv_version |-> dhmv_version,
                   base_path |-> PathOf(path)]]

FilenameUnpadded(self, extension) ==
    <<"D", "H", "M", "V">> \o self.dhmv_version \o self.data_type
        \o <<"R", "A", "S">> \o self.res \o <<"_", "k">>
        \o Digits(self.zone) \o extension

\* HeightDataImage.filename
filename(self, extension) ==
    <<"D", "H", "M", "V">> \o self.dhmv_version \o self.data_type
        \o <<"R", "A", "S">> \o self.res \o <<"_", "k">>
        \o Format02d(self.zone) \o extension

\* HeightDataImage.full_path: base_path / filename
full_path(self, extension) == self.base_path \o <<filename(self, extension)>>

\* HeightDataImage.get_download_link; the fixed head of the URL is one token.
get_download_link(self) ==
    <<"https://downloadagiv.blob.core.windows.net/dhm-vlaanderen-">>
        \o lower(self.dhmv_version) \o <<"-">> \o lower(self.data_type)
        \o <<"-", "r", "a", "s", "t", "e", "r", "-">> \o self.res \o <<"/">>
        \o filename(self, ExtZip)

ComplementDefaults(self) ==
    IF self.data_type = StrDSM
    THEN NewImage(self.zone, StrDTM, Res1m, VerII, <<".", "tiff_data">>)
    ELSE IF self.data_type = StrDTM
    THEN NewImage(self.zone, StrDSM, Res1m, VerII, <<".", "tiff_data">>)
    ELSE [ok |-> FALSE, err |-> "RuntimeError"]

\* HeightDataImage.complement
complement(self) ==
    IF self.data_type = StrDSM
    THEN NewImage(self.zone, StrDTM, self.res, self.dhmv_version,
                  PathStr(self.base_path))
    ELSE IF self.data_type = StrDTM
    THEN NewImage(self.zone, StrDSM, self.res, self.dhmv_version,
                  PathStr(self.base_path))
    ELSE [ok |-> FALSE, err |-> "RuntimeError"]

\* ------------------------------------------------------------------ state
VARIABLES
    kbv,        \* get_zone: the zone dataset read from the shapefile
    query,      \* get_zone: the point last looked up, or NoTuple
    zres,       \* get_zone: what the last lookup returned or raised
    cargs,      \* HeightDataImage: the arguments of the constructor call, or None
    img,        \* HeightDataImage: the ref the constructor returned, or None
    chain,      \* img and the refs obtained from it by successive complement() calls
    fname,      \* the last result of filename(): <<ref, extension, name>>, or NoTuple
    rerr,       \* the error raised by the constructor or by complement(), or NoErr
    tools,      \* the environment: what running aria2c and wget gives
    download_manager,   \* the module's global download_manager
    fs,         \* the file system: what is at each path under the base directory
    pc,         \* each request's position in Building.__init__ / load_data
    req,        \* each request's arguments: the address point and auto_download
    files,      \* each Building's <<dsm_file, dtm_file>>
    idx,        \* each request's position in the loop over the two files
    zh,         \* what the ZipFile a request holds open was opened on
    data,       \* each Building's dtm_data, dsm_data, chm_data: the number of
                \* the load_data call that set the attribute, 0 when unset
    gen,        \* each Building's number of load_data calls so far
    fail,       \* the stage and error of the exception that ended a request
    returned,   \* whether Building(...) has returned the object to its caller
    notices,    \* what each request has printed: <<file name, download link>>
    missed,     \* history: the files a request found missing
    fetches,    \* history: per raster path, the network fetches started
    runs,       \* history: per raster path, the ensure-local steps run with
                \* fetching allowed
    ensured,    \* history: the raster paths for which an ensure-local step
                \* has completed without error
    polys,      \* whether each request's Address holds _building_polygons
    threads,    \* whether the caller runs its requests on concurrent threads
    dl,         \* each download() call: whether it was made directly (not by
                \* Building.__init__), its keep_zip, and the store it began on
    dtm_tif,    \* load_data: the raster in the file at dtm_file.full_path()
    dsm_tif,    \* load_data: the raster in the file at dsm_file.full_path()
    shapes,     \* load_data: the polygons get_building_shape() returned
    dtm_data,   \* Building.dtm_data, or None
    shape_transform,    \* Building.shape_transform, or None
    dsm_data,   \* Building.dsm_data, or None
    dsm_transform,      \* the transform of the surface grid, which load_data
                        \* drops (_), or None
    chm_data,   \* Building.chm_data, or None
    lpc,        \* the position of the load_data call
    lerr,       \* the error that ended the load_data call, or NoErr
    building_units,     \* Address.building_units
    registry,   \* the building registry: the revision of its geometries
    building_polygons,  \* Address._building_polygons, or None when the
                        \* attribute is not set
    calls       \* history: what each get_building_shape() call did

zoneVars  == <<kbv, query, zres>>
refVars   == <<cargs, img, chain, fname, rerr>>
storeVars == <<tools, download_manager, fs, pc, req, files, idx, zh, data, gen,
               fail, returned, notices, missed, fetches, runs, ensured, polys,
               threads, dl>>
gridVars  == <<dtm_tif, dsm_tif, shapes, dtm_data, shape_transform, dsm_data,
               dsm_transform, chm_data, lpc, lerr>>
shapeVars == <<building_units, registry, building_polygons, calls>>
vars      == <<zoneVars, refVars, storeVars, gridVars, shapeVars>>
\* What the steps of a Building request leave alone.
apartVars == <<zoneVars, refVars, gridVars, shapeVars>>

ZoneIdle == kbv = NoTuple /\ query = NoTuple /\ zres = None
RefIdle  == cargs = None /\ img = None /\ chain = <<>> /\ fname = NoTuple /\ rerr = NoErr
GridIdle ==
    /\ dtm_tif = None /\ dsm_tif = None /\ shapes = {}
    /\ dtm_data = None /\ shape_transform = None
    /\ dsm_data = None /\ dsm_transform = None
    /\ chm_data = None /\ lpc = "idle" /\ lerr = NoErr
ShapeIdle ==
    /\ building_units = <<>> /\ registry = 0
    /\ building_polygons = None /\ calls = <<>>

\* ------------------------------------------------------------------ store
\* The requests: Building constructions, each followed by the load_data
\* calls its caller makes on the returned object.
Procs == 1..NumProcs

\* The addresses of the requests (the points Address.lambert holds): a point
\* of the scenario's tile 1 and its uncovered point.
Addresses == {<<5, 5>>, <<100, 100>>}

\* The dataset the requests' lookups read.
StoreKbv == KbvTriangles

DefaultPath == <<".", "tiff_data">>

\* Building.__init__: dsm_file = HeightDataImage(zone, "dsm") and
\* dtm_file = dsm_file.complement()
BuildingFiles(zone) ==
    LET dsm_file == NewImage(zone, <<"d", "s", "m">>, Res1m, VerII, DefaultPath).obj
    IN  <<dsm_file, complement(dsm_file).obj>>

Tif(file) == full_path(file, ExtTif)
Zip(file) == full_path(file, ExtZip)

\* The zones the requests' addresses lie in, and their files.
StoreZones ==
    {get_zone(StoreKbv, a).zone : a \in {b \in Addresses : get_zone(StoreKbv, b).ok}}
StoreFiles == UNION {{BuildingFiles(z)[1], BuildingFiles(z)[2]} : z \in StoreZones}
TifPaths == {Tif(f) : f \in StoreFiles}
ZipPaths == {Zip(f) : f \in StoreFiles}

\* What a path holds.  A raster path: nothing, a file opened for writing and
\* still empty, a partly written file, the complete raster.  An archive path:
\* nothing, an empty or partly written file (no valid archive), a complete
\* archive with the entry GeoTIFF/<name>, a complete archive without it, or
\* the directory that wget -P makes of it.
Absent   == "absent"
Empty    == "empty"
Partial  == "partial"
Complete == "complete"
Archive  == "archive"
NoEntry  == "noentry"
Dir      == "dir"

\* The environments that differ in what download() does.  Running a tool
\* with --version exits 0 ("ok"), exits with another code ("broken"), or
\* run() raises FileNotFoundError for want of it ("missing").
Environments ==
    {[aria2c |-> "ok", wget |-> "ok"],
     [aria2c |-> "missing", wget |-> "ok"],
     [aria2c |-> "broken", wget |-> "ok"],
     [aria2c |-> "broken", wget |-> "missing"],
     [aria2c |-> "broken", wget |-> "broken"]}

\* download(): the probe for a download manager.  download_manager is set
\* to "requests" first; run([app, "--version"]) raises when app is missing,
\* and the first app that exits 0 is taken.
ProbeManager(env) ==
    IF env.aria2c = "missing"
    THEN [ok |-> FALSE, manager |-> "requests", err |-> "FileNotFoundError"]
    ELSE IF env.aria2c = "ok"
    THEN [ok |-> TRUE, manager |-> "aria2c", err |-> NoErr]
    ELSE IF env.wget = "missing"
    THEN [ok |-> FALSE, manager |-> "requests", err |-> "FileNotFoundError"]
    ELSE IF env.wget = "ok"
    THEN [ok |-> TRUE, manager |-> "wget", err |-> NoErr]
    ELSE [ok |-> TRUE, manager |-> "requests", err |-> NoErr]

IsDownloadedZip(store, file) == store[Zip(file)] # Absent

\* HeightDataImage.is_downloaded: full_path().exists()
is_downloaded(store, file) == store[Tif(file)] # Absent

EnsureAlwaysDownload(downloaded, auto_download) ==
    IF downloaded THEN "skip" ELSE "download"

\* Building.__init__, the body of the loop over the two files: nothing to
\* do for a file that is there, download() when allowed, a printed notice
\* otherwise.
EnsureLocalBranch(downloaded, auto_download) ==
    IF downloaded THEN "skip"
    ELSE IF auto_download THEN "download"
    ELSE "notice"

NoFail == [stage |-> "none", err |-> NoErr]
NoData == [dtm |-> 0, dsm |-> 0, chm |-> 0]
\* A request that is no direct download() call: Building.__init__ calls
\* file.download(), keep_zip left at its default.
NoCall == [direct |-> FALSE, keep_zip |-> FALSE, before |-> NoTuple, n |-> 0]

\* The positions of a request inside download().
DownloadPcs == {"probe", "fetch", "stream", "zipopen", "extract", "cleanup"}
\* The positions of a request inside load_data().
LoadPcs == {"shapes", "readdtm", "readdsm", "chm"}

\* The state of the store and of the requests before any request is made,
\* the complete rasters at the paths of present.
StoreRest(present) ==
    /\ download_manager = "None"
    /\ fs = [path \in TifPaths \cup ZipPaths |->
                IF path \in present THEN Complete ELSE Absent]
    /\ pc = [p \in Procs |-> "idle"]
    /\ req = [p \in Procs |-> None]
    /\ files = [p \in Procs |-> <<>>]
    /\ idx = [p \in Procs |-> 1]
    /\ zh = [p \in Procs |-> Absent]
    /\ data = [p \in Procs |-> NoData]
    /\ gen = [p \in Procs |-> 0]
    /\ fail = [p \in Procs |-> NoFail]
    /\ returned = [p \in Procs |-> FALSE]
    /\ notices = [p \in Procs |-> {}]
    /\ missed = [p \in Procs |-> {}]
    /\ fetches = [path \in TifPaths |-> 0]
    /\ runs = [path \in TifPaths |-> 0]
    /\ ensured = {}
    /\ polys = [p \in Procs |-> FALSE]
    /\ dl = [p \in Procs |-> NoCall]

StoreInitWith(env, present) ==
    /\ tools = env
    /\ threads = FALSE
    /\ StoreRest(present)

StoreIdle == StoreInitWith([aria2c |-> "ok", wget |-> "ok"], {})

\* ------------------------------------------------------------------ zone lookup
InitZone ==
    /\ kbv \in Datasets
    /\ query = NoTuple
    /\ zres = None
    /\ RefIdle
    /\ StoreIdle
    /\ GridIdle
    /\ ShapeIdle

\* One call get_zone(x, y); every call reads the dataset anew and keeps no
\* state, so one call per behaviour covers the function.
GetZone(p) ==
    /\ query = NoTuple
    /\ query' = p
    /\ zres' = get_zone(kbv, p)
    /\ UNCHANGED <<kbv, refVars, storeVars, gridVars, shapeVars>>

NextZone == \E p \in Points : GetZone(p)

SpecZone == InitZone /\ [][NextZone]_vars

\* ------------------------------------------------------------------ refs
ZoneInputs == (0..MaxZone) \cup {15, 43, 100}

\* data_type arguments: both kinds in several spellings, and values that
\* are neither.
DataTypeInputs ==
    {StrDSM, StrDTM, <<"d", "s", "m">>, <<"D", "t", "m">>,
     <<"C", "H", "M">>, <<>>}

\* path arguments, as their components: "./tiff_data" (the default),
\* "tiff_data", "data//tiff/", "." and "/srv/tiff".
PathInputs ==
    {<<".", "tiff_data">>, <<"tiff_data">>, <<"data", "", "tiff", "">>,
     <<".">>, <<"/", "srv", "tiff">>}

InitRef ==
    /\ ZoneIdle
    /\ RefIdle
    /\ StoreIdle
    /\ GridIdle
    /\ ShapeIdle

\* r = HeightDataImage(zone, data_type, resolution, dhmv_version, path)
Construct(z, dt, res, ver, path) ==
    /\ cargs = None
    /\ cargs' = [zone |-> z, data_type |-> dt, res |-> res,
                 dhmv_version |-> ver, path |-> path]
    /\ LET r == NewImage(z, dt, res, ver, path)
       IN  IF r.ok
           THEN img' = r.obj /\ chain' = <<r.obj>> /\ rerr' = rerr
           ELSE img' = img /\ chain' = chain /\ rerr' = r.err
    /\ UNCHANGED <<zoneVars, fname, storeVars, gridVars, shapeVars>>

\* chain[n + 1] = chain[n].complement()
Complement ==
    /\ chain # <<>>
    /\ rerr = NoErr
    /\ Len(chain) =< MaxChain
    /\ LET r == complement(chain[Len(chain)])
       IN  IF r.ok
           THEN chain' = Append(chain, r.obj) /\ rerr' = rerr
           ELSE chain' = chain /\ rerr' = r.err
    /\ UNCHANGED <<zoneVars, cargs, img, fname, storeVars, gridVars, shapeVars>>

\* chain[n].filename(extension) of the newest ref
Filename(ext) ==
    /\ chain # <<>>
    /\ fname' = <<chain[Len(chain)], ext, filename(chain[Len(chain)], ext)>>
    /\ UNCHANGED <<zoneVars, cargs, img, chain, rerr, storeVars, gridVars,
                   shapeVars>>

NextRef ==
    \/ \E z \in ZoneInputs, dt \in DataTypeInputs, res \in {Res1m, Res5m},
          ver \in {VerI, VerII}, path \in PathInputs :
            Construct(z, dt, res, ver, path)
    \/ Complement
    \/ \E ext \in {ExtTif, ExtZip} : Filename(ext)

SpecRef == InitRef /\ [][NextRef]_vars

\* ------------------------------------------------------------------ Building
\* The requests of a single-threaded caller: one at a time.
Init ==
    /\ kbv = StoreKbv
    /\ query = NoTuple
    /\ zres = None
    /\ RefIdle
    /\ GridIdle
    /\ ShapeIdle
    /\ \E env \in Environments, present \in SUBSET TifPaths :
          StoreInitWith(env, present)

\* No other request is under way, unless the caller runs them concurrently.
Scheduled(p) ==
    threads \/ \A q \in Procs \ {p} : pc[q] \in {"idle", "done", "failed"}

CurFile(p) == files[p][idx[p]]

\* An exception leaves the request: its stage and kind are what the caller
\* is told.
Fail(p, stage, err) ==
    /\ pc' = [pc EXCEPT ![p] = "failed"]
    /\ fail' = [fail EXCEPT ![p] = [stage |-> stage, err |-> err]]

\* download() returns: to its direct caller, or to the loop over
\* [dsm_file, dtm_file], which goes on to the next file or ends.
Advance(p) ==
    IF dl[p].direct
    THEN /\ idx' = idx
         /\ pc' = [pc EXCEPT ![p] = "done"]
    ELSE IF idx[p] = 1
    THEN /\ idx' = [idx EXCEPT ![p] = 2]
         /\ pc' = [pc EXCEPT ![p] = "check"]
    ELSE /\ idx' = idx
         /\ pc' = [pc EXCEPT ![p] = "loadcheck"]

\* Building(address, auto_download) up to the loop: the zone lookup and the
\* two refs.
Start(p, a, auto) ==
    /\ Scheduled(p)
    /\ pc[p] = "idle"
    /\ req' = [req EXCEPT ![p] = [addr |-> a, auto |-> auto]]
    /\ LET z == get_zone(kbv, a)
       IN  IF z.ok
           THEN /\ files' = [files EXCEPT ![p] = BuildingFiles(z.zone)]
                /\ pc' = [pc EXCEPT ![p] = "check"]
                /\ fail' = fail
           ELSE /\ files' = files
                /\ Fail(p, "RESOLVE_ZONE", z.err)
    /\ UNCHANGED <<apartVars, threads, dl, tools, download_manager, fs, idx, zh, data,
                   gen, returned, notices, missed, fetches, runs, ensured, polys>>

\* One turn of the loop: is_downloaded(), then download(), the notice, or
\* nothing.
Check(p) ==
    /\ Scheduled(p)
    /\ pc[p] = "check"
    /\ LET file == CurFile(p)
           there == is_downloaded(fs, file)
           branch == EnsureLocalBranch(there, req[p].auto)
       IN  /\ missed' = [missed EXCEPT ![p] = IF there THEN @ ELSE @ \cup {Tif(file)}]
           /\ runs' = [runs EXCEPT ![Tif(file)] = IF req[p].auto THEN @ + 1 ELSE @]
           /\ IF branch = "skip"
              THEN /\ ensured' = ensured \cup {Tif(file)}
                   /\ notices' = notices
                   /\ Advance(p)
              ELSE IF branch = "download"
              THEN /\ pc' = [pc EXCEPT ![p] = "probe"]
                   /\ UNCHANGED <<ensured, notices, idx>>
              ELSE /\ notices' = [notices EXCEPT ![p] =
                          @ \cup {<<filename(file, ExtTif), get_download_link(file)>>}]
                   /\ ensured' = ensured
                   /\ Advance(p)
    /\ UNCHANGED <<apartVars, threads, dl, tools, download_manager, fs, req, files, zh,
                   data, gen, fail, returned, fetches, polys>>

\* download(): the download manager is looked for when none is set.
Probe(p) ==
    /\ Scheduled(p)
    /\ pc[p] = "probe"
    /\ IF download_manager = "None"
       THEN LET r == ProbeManager(tools)
            IN  /\ download_manager' = r.manager
                /\ IF r.ok
                   THEN pc' = [pc EXCEPT ![p] = "fetch"] /\ fail' = fail
                   ELSE Fail(p, "ENSURE_LOCAL", r.err)
       ELSE /\ download_manager' = download_manager
            /\ pc' = [pc EXCEPT ![p] = "fetch"]
            /\ fail' = fail
    /\ UNCHANGED <<apartVars, threads, dl, tools, fs, req, files, idx, zh, data, gen,
                   returned, notices, missed, fetches, runs, ensured, polys>>

\* What the start of the transfer can come to, per download manager.
\* requests: the response is an error (raise_for_status raises), or the
\* archive is opened for writing.  aria2c: nothing is written, or the
\* archive is being written.  wget -P <archive path>: nothing is written,
\* or the archive path is made a directory that the download goes into.
FetchOutcomes(manager) ==
    CASE manager = "requests" -> {"error", "writing"}
      [] manager = "aria2c" -> {"nothing", "writing"}
      [] OTHER -> {"nothing", "directory"}

\* download(): the network fetch begins.
Fetch(p) ==
    /\ Scheduled(p)
    /\ pc[p] = "fetch"
    /\ fetches' = [fetches EXCEPT ![Tif(CurFile(p))] = @ + 1]
    /\ \E out \in FetchOutcomes(download_manager) :
          IF out = "error"
          THEN Fail(p, "ENSURE_LOCAL", "HTTPError") /\ fs' = fs
          ELSE IF out = "nothing"
          THEN /\ pc' = [pc EXCEPT ![p] = "zipopen"]
               /\ UNCHANGED <<fs, fail>>
          ELSE IF out = "directory"
          THEN /\ fs' = [fs EXCEPT ![Zip(CurFile(p))] = Dir]
               /\ pc' = [pc EXCEPT ![p] = "zipopen"]
               /\ fail' = fail
          ELSE /\ fs' = [fs EXCEPT ![Zip(CurFile(p))] =
                            IF download_manager = "requests" THEN Empty ELSE Partial]
               /\ pc' = [pc EXCEPT ![p] = "stream"]
               /\ fail' = fail
    /\ UNCHANGED <<apartVars, threads, dl, tools, download_manager, req, files, idx, zh,
                   data, gen, returned, notices, missed, runs, ensured, polys>>

\* download(): the archive has been written, whole (with or without the
\* expected entry) or in part; only requests raises for a transfer that
\* broke off.
Stream(p) ==
    /\ Scheduled(p)
    /\ pc[p] = "stream"
    /\ \E out \in {Archive, NoEntry, Partial} :
          /\ fs' = [fs EXCEPT ![Zip(CurFile(p))] = out]
          /\ IF out = Partial /\ download_manager = "requests"
             THEN Fail(p, "ENSURE_LOCAL", "ChunkedEncodingError")
             ELSE pc' = [pc EXCEPT ![p] = "zipopen"] /\ fail' = fail
    /\ UNCHANGED <<apartVars, threads, dl, tools, download_manager, req, files, idx, zh,
                   data, gen, returned, notices, missed, fetches, runs, ensured,
                   polys>>

\* download(): ZipFile(full_path(".zip")) and then open(full_path(), "wb"),
\* which creates the raster file, or empties the one that is there.
ZipOpen(p) ==
    /\ Scheduled(p)
    /\ pc[p] = "zipopen"
    /\ LET z == fs[Zip(CurFile(p))]
       IN  IF z = Absent
           THEN Fail(p, "ENSURE_LOCAL", "FileNotFoundError") /\ UNCHANGED <<fs, zh>>
           ELSE IF z = Dir
           THEN Fail(p, "ENSURE_LOCAL", "IsADirectoryError") /\ UNCHANGED <<fs, zh>>
           ELSE IF z \in {Empty, Partial}
           THEN Fail(p, "ENSURE_LOCAL", "BadZipFile") /\ UNCHANGED <<fs, zh>>
           ELSE /\ zh' = [zh EXCEPT ![p] = z]
                /\ fs' = [fs EXCEPT ![Tif(CurFile(p))] = Empty]
                /\ pc' = [pc EXCEPT ![p] = "extract"]
                /\ fail' = fail
    /\ UNCHANGED <<apartVars, threads, dl, tools, download_manager, req, files, idx,
                   data, gen, returned, notices, missed, fetches, runs, ensured,
                   polys>>

\* download(): tifout.write(zipf.read("GeoTIFF/<name>")): KeyError for an
\* archive without the entry, else the raster is written, whole or in part.
Extract(p) ==
    /\ Scheduled(p)
    /\ pc[p] = "extract"
    /\ IF zh[p] = NoEntry
       THEN Fail(p, "ENSURE_LOCAL", "KeyError") /\ fs' = fs
       ELSE \E out \in {Complete, Partial} :
              /\ fs' = [fs EXCEPT ![Tif(CurFile(p))] = out]
              /\ IF out = Partial
                 THEN Fail(p, "ENSURE_LOCAL", "OSError")
                 ELSE pc' = [pc EXCEPT ![p] = "cleanup"] /\ fail' = fail
    /\ zh' = [zh EXCEPT ![p] = Absent]
    /\ UNCHANGED <<apartVars, threads, dl, tools, download_manager, req, files, idx,
                   data, gen, returned, notices, missed, fetches, runs, ensured,
                   polys>>

RemovesZipAlways(keep_zip, exists) == exists

\* download(), CLEANUP: if not keep_zip and self.full_path().exists()
RemovesZip(keep_zip, exists) == ~keep_zip /\ exists

\* download(): the archive is removed, unless it is to be kept or the
\* raster does not exist; download() returns.
Cleanup(p) ==
    /\ Scheduled(p)
    /\ pc[p] = "cleanup"
    /\ IF ~RemovesZip(dl[p].keep_zip, fs[Tif(CurFile(p))] # Absent)
       THEN /\ fs' = fs
            /\ ensured' = ensured \cup {Tif(CurFile(p))}
            /\ fail' = fail
            /\ Advance(p)
       ELSE IF fs[Zip(CurFile(p))] = Absent
       THEN /\ Fail(p, "ENSURE_LOCAL", "FileNotFoundError")
            /\ UNCHANGED <<fs, ensured, idx>>
       ELSE /\ fs' = [fs EXCEPT ![Zip(CurFile(p))] = Absent]
            /\ ensured' = ensured \cup {Tif(CurFile(p))}
            /\ fail' = fail
            /\ Advance(p)
    /\ UNCHANGED <<apartVars, threads, dl, tools, download_manager, req, files, zh, data,
                   gen, returned, notices, missed, fetches, runs, polys>>

\* Building.__init__, after the loop: load_data() when both rasters are
\* there; otherwise the constructor returns a Building without data.
LoadCheck(p) ==
    /\ Scheduled(p)
    /\ pc[p] = "loadcheck"
    /\ IF is_downloaded(fs, files[p][1]) /\ is_downloaded(fs, files[p][2])
       THEN /\ pc' = [pc EXCEPT ![p] = "shapes"]
            /\ gen' = [gen EXCEPT ![p] = @ + 1]
            /\ returned' = returned
       ELSE /\ pc' = [pc EXCEPT ![p] = "done"]
            /\ gen' = gen
            /\ returned' = [returned EXCEPT ![p] = TRUE]
    /\ UNCHANGED <<apartVars, threads, dl, tools, download_manager, fs, req, files, idx,
                   zh, data, fail, notices, missed, fetches, runs, ensured, polys>>

\* load_data(): shapes = self.address.get_building_shape(), which returns
\* the stored polygons, or fetches them (a response that is not ok raises
\* RuntimeError) and stores them.
Shapes(p) ==
    /\ Scheduled(p)
    /\ pc[p] = "shapes"
    /\ IF polys[p]
       THEN /\ pc' = [pc EXCEPT ![p] = "readdtm"]
            /\ UNCHANGED <<polys, fail>>
       ELSE \E ok \in BOOLEAN :
              IF ok
              THEN /\ polys' = [polys EXCEPT ![p] = TRUE]
                   /\ pc' = [pc EXCEPT ![p] = "readdtm"]
                   /\ fail' = fail
              ELSE /\ polys' = polys
                   /\ Fail(p, "LOAD_FOOTPRINT", "RuntimeError")
    /\ UNCHANGED <<apartVars, threads, dl, tools, download_manager, fs, req, files, idx,
                   zh, data, gen, returned, notices, missed, fetches, runs, ensured>>

\* rasterio.open(path) reads a complete raster only.
Readable(path) == fs[path] = Complete

\* load_data(): the terrain raster is opened and masked; dtm_data and
\* shape_transform are set.
ReadDtm(p) ==
    /\ Scheduled(p)
    /\ pc[p] = "readdtm"
    /\ IF Readable(Tif(files[p][2]))
       THEN /\ data' = [data EXCEPT ![p].dtm = gen[p]]
            /\ pc' = [pc EXCEPT ![p] = "readdsm"]
            /\ fail' = fail
       ELSE /\ data' = data
            /\ Fail(p, "EXTRACT_DTM", "RasterioIOError")
    /\ UNCHANGED <<apartVars, threads, dl, tools, download_manager, fs, req, files, idx,
                   zh, gen, returned, notices, missed, fetches, runs, ensured, polys>>

\* load_data(): the surface raster is opened and masked; dsm_data is set.
ReadDsm(p) ==
    /\ Scheduled(p)
    /\ pc[p] = "readdsm"
    /\ IF Readable(Tif(files[p][1]))
       THEN /\ data' = [data EXCEPT ![p].dsm = gen[p]]
            /\ pc' = [pc EXCEPT ![p] = "chm"]
            /\ fail' = fail
       ELSE /\ data' = data
            /\ Fail(p, "EXTRACT_DSM", "RasterioIOError")
    /\ UNCHANGED <<apartVars, threads, dl, tools, download_manager, fs, req, files, idx,
                   zh, gen, returned, notices, missed, fetches, runs, ensured, polys>>

\* load_data(): chm_data = dsm_data - dtm_data; load_data returns, and with
\* it the constructor when it made the call.
Chm(p) ==
    /\ Scheduled(p)
    /\ pc[p] = "chm"
    /\ data' = [data EXCEPT ![p].chm = gen[p]]
    /\ pc' = [pc EXCEPT ![p] = "done"]
    /\ returned' = [returned EXCEPT ![p] = TRUE]
    /\ UNCHANGED <<apartVars, threads, dl, tools, download_manager, fs, req, files, idx,
                   zh, gen, fail, notices, missed, fetches, runs, ensured, polys>>

\* The caller of a returned Building calls load_data() ("(Re)load").
Reload(p) ==
    /\ Scheduled(p)
    /\ returned[p]
    /\ pc[p] \in {"done", "failed"}
    /\ gen[p] < MaxLoads
    /\ gen' = [gen EXCEPT ![p] = @ + 1]
    /\ pc' = [pc EXCEPT ![p] = "shapes"]
    /\ fail' = [fail EXCEPT ![p] = NoFail]
    /\ UNCHANGED <<apartVars, threads, dl, tools, download_manager, fs, req, files, idx,
                   zh, data, returned, notices, missed, fetches, runs, ensured,
                   polys>>

\* file.download(keep_zip), called on a ref by the program's user: the
\* call begins.  The calls of a sequential caller are those of one process.
Download(p, file, keep_zip) ==
    /\ p = 1
    /\ Scheduled(p)
    /\ pc[p] \in {"idle", "done", "failed"}
    /\ dl[p].n < MaxCalls
    /\ dl' = [dl EXCEPT ![p] = [direct |-> TRUE, keep_zip |-> keep_zip,
                                before |-> fs, n |-> @.n + 1]]
    /\ files' = [files EXCEPT ![p] = <<file>>]
    /\ pc' = [pc EXCEPT ![p] = "probe"]
    /\ fail' = [fail EXCEPT ![p] = NoFail]
    /\ UNCHANGED <<apartVars, threads, tools, download_manager, fs, req, idx, zh,
                   data, gen, returned, notices, missed, fetches, runs, ensured,
                   polys>>

Step(p) ==
    \/ \E a \in Addresses, auto \in BOOLEAN : Start(p, a, auto)
    \/ Check(p)
    \/ Probe(p)
    \/ Fetch(p)
    \/ Stream(p)
    \/ ZipOpen(p)
    \/ Extract(p)
    \/ Cleanup(p)
    \/ LoadCheck(p)
    \/ Shapes(p)
    \/ ReadDtm(p)
    \/ ReadDsm(p)
    \/ Chm(p)
    \/ Reload(p)

Next == \E p \in Procs : Step(p)

\* The program as written: a single-threaded caller.
Spec == Init /\ [][Next]_vars

\* The caller runs its requests on concurrent threads, their steps
\* interleaved.
InitConc ==
    /\ kbv = StoreKbv
    /\ query = NoTuple
    /\ zres = None
    /\ RefIdle
    /\ GridIdle
    /\ ShapeIdle
    /\ \E env \in Environments, present \in SUBSET TifPaths :
          /\ tools = env
          /\ threads = TRUE
          /\ StoreRest(present)

SpecConc == InitConc /\ [][Next]_vars

\* A single-threaded caller that calls download() on refs itself.
StepDownload(p) ==
    \/ \E file \in StoreFiles, keep_zip \in BOOLEAN : Download(p, file, keep_zip)
    \/ Probe(p)
    \/ Fetch(p)
    \/ Stream(p)
    \/ ZipOpen(p)
    \/ Extract(p)
    \/ Cleanup(p)

NextDownload == \E p \in Procs : StepDownload(p)

SpecDownload == Init /\ [][NextDownload]_vars

\* ------------------------------------------------------------------ load_data
\* Planar coordinates are in half metres, so that the centre of a pixel of
\* the 1 m rasters Building asks for has integer coordinates.
PixelSize == 2
\* A map sheet's raster has TileSide x TileSide pixels and covers
\* (0,0)-(TileEdge,TileEdge).
TileSide == 3
TileEdge == TileSide * PixelSize

Min(S) == CHOOSE x \in S : \A y \in S : x =< y
Max(S) == CHOOSE x \in S : \A y \in S : x >= y
\* math.floor(a / b) and math.ceil(a / b) for b > 0
FloorDiv(a, b) == a \div b
CeilDiv(a, b) == 0 - ((0 - a) \div b)

\* The cells of an array of h rows and w columns, indexed from 0.
Cells(h, w) == (0..(h - 1)) \X (0..(w - 1))

\* The value mask() writes into the cells outside the shapes: the raster's
\* nodata value, 0 for a raster that declares none (nodata is the empty
\* set for None, the set of the value otherwise).
FillValue(tif) ==
    IF tif.nodata = {} THEN 0 ELSE CHOOSE n \in tif.nodata : TRUE

\* The centre of pixel (row, col) of a raster, north up: the transform
\* applied to (col + 0.5, row + 0.5).
PixelCentre(tif, row, col) ==
    <<tif.left + col * PixelSize + PixelSize \div 2,
      tif.top - row * PixelSize - PixelSize \div 2>>

\* rasterio.mask.mask(tiffile, shapes, crop=True, indexes=1): the band is
\* read in the window of the shapes' bounds, rounded outwards to whole pixels
\* and cut to the raster; a pixel whose centre is in no shape gets the fill
\* value; the transform is that of the window.  ValueError when there is no
\* shape or when the shapes do not overlap the raster.
mask(tif, polygons) ==
    IF polygons = {} THEN [ok |-> FALSE, err |-> "ValueError"]
    ELSE
    LET xs == UNION {{poly[i][1] : i \in 1..Len(poly)} : poly \in polygons}
        ys == UNION {{poly[i][2] : i \in 1..Len(poly)} : poly \in polygons}
        col_start == Max({FloorDiv(Min(xs) - tif.left, PixelSize), 0})
        col_stop  == Min({CeilDiv(Max(xs) - tif.left, PixelSize), tif.width})
        row_start == Max({FloorDiv(tif.top - Max(ys), PixelSize), 0})
        row_stop  == Min({CeilDiv(tif.top - Min(ys), PixelSize), tif.height})
    IN  IF col_start >= col_stop \/ row_start >= row_stop
        THEN [ok |-> FALSE, err |-> "ValueError"]
        ELSE [ok |-> TRUE,
              image |->
                [h |-> row_stop - row_start,
                 w |-> col_stop - col_start,
                 v |-> [c \in Cells(row_stop - row_start, col_stop - col_start) |->
                          IF \E poly \in polygons :
                                contains(poly, PixelCentre(tif, row_start + c[1],
                                                           col_start + c[2]))
                          THEN tif.band[<<row_start + c[1], col_start + c[2]>>]
                          ELSE FillValue(tif)]],
              transform |->
                [a |-> PixelSize, e |-> 0 - PixelSize,
                 c |-> tif.left + col_start * PixelSize,
                 f |-> tif.top - row_start * PixelSize]]

\* numpy broadcasting of two 2-D shapes: each dimension agrees or is 1 in
\* one of them.
Broadcastable(x, y) ==
    /\ (x.h = y.h \/ x.h = 1 \/ y.h = 1)
    /\ (x.w = y.w \/ x.w = 1 \/ y.w = 1)

\* The cell of x that takes part in cell c of the broadcast result.
BroadcastCell(x, c) ==
    <<IF x.h = 1 THEN 0 ELSE c[1], IF x.w = 1 THEN 0 ELSE c[2]>>

SubtractReversed(x, y) ==
    IF ~Broadcastable(x, y) THEN [ok |-> FALSE, err |-> "ValueError"]
    ELSE [ok |-> TRUE,
          array |-> [h |-> Max({x.h, y.h}), w |-> Max({x.w, y.w}),
                     v |-> [c \in Cells(Max({x.h, y.h}), Max({x.w, y.w})) |->
                              y.v[BroadcastCell(y, c)] - x.v[BroadcastCell(x, c)]]]]

\* x - y on numpy arrays: elementwise on the broadcast shapes, ValueError
\* when the shapes cannot be broadcast together.
Subtract(x, y) ==
    IF ~Broadcastable(x, y) THEN [ok |-> FALSE, err |-> "ValueError"]
    ELSE [ok |-> TRUE,
          array |-> [h |-> Max({x.h, y.h}), w |-> Max({x.w, y.w}),
                     v |-> [c \in Cells(Max({x.h, y.h}), Max({x.w, y.w})) |->
                              x.v[BroadcastCell(x, c)] - y.v[BroadcastCell(y, c)]]]]

\* The rasters the two files may hold.  Each has the width of a map sheet
\* and its top edge; it starts at the sheet's left edge or one pixel to the
\* right of it, and has all the rows or the top row only.  It declares the
\* nodata value -9999 or none.  Its band is flat (5 for terrain, 12 for
\* surface), a relief over that, or flat with one nodata cell.
BandValue(kind, pattern, nodata, row, col) ==
    LET base == IF kind = StrDTM THEN 5 ELSE 12
    IN  IF pattern = "relief" THEN base + row + 2 * col
        ELSE IF pattern = "void" /\ row = 0 /\ col = 1 /\ nodata # {}
        THEN CHOOSE n \in nodata : TRUE
        ELSE base

MakeTif(kind, left, height, nodata, pattern) ==
    [left |-> left, top |-> TileEdge, width |-> TileSide, height |-> height,
     nodata |-> nodata,
     band |-> [c \in Cells(height, TileSide) |->
                 BandValue(kind, pattern, nodata, c[1], c[2])]]

TifInputs(kind) ==
    {MakeTif(kind, left, height, nodata, pattern) :
        left \in {0, PixelSize}, height \in {1, TileSide},
        nodata \in {{}, {0 - 9999}}, pattern \in {"flat", "relief", "void"}}

Square(x0, y0, x1, y1) == << <<x0, y0>>, <<x1, y0>>, <<x1, y1>>, <<x0, y1>> >>

\* The footprints get_building_shape() may return: one building over the
\* whole sheet; one over the sheet and a pixel past its right edge; a
\* triangular one; two buildings, on the sheet's top left and bottom right
\* pixels; one right of the sheet; none at all.
ShapeInputs ==
    {{Square(0, 0, TileEdge, TileEdge)},
     {Square(0, 0, TileEdge + PixelSize, TileEdge)},
     {<< <<0, 0>>, <<TileEdge - 1, 0>>, <<0, TileEdge - 1>> >>},
     {Square(0, TileEdge - PixelSize, PixelSize, TileEdge),
      Square(TileEdge - PixelSize, 0, TileEdge, PixelSize)},
     {Square(TileEdge, 0, TileEdge + PixelSize, TileEdge)},
     {}}

\* A Building whose two files are on disk, before load_data().
InitChm ==
    /\ ZoneIdle
    /\ RefIdle
    /\ StoreIdle
    /\ ShapeIdle
    /\ dtm_tif \in TifInputs(StrDTM)
    /\ dsm_tif \in TifInputs(StrDSM)
    /\ shapes = {}
    /\ dtm_data = None /\ shape_transform = None
    /\ dsm_data = None /\ dsm_transform = None
    /\ chm_data = None /\ lpc = "idle" /\ lerr = NoErr

\* load_data(): shapes = self.address.get_building_shape()
LoadShapes(s) ==
    /\ lpc = "idle"
    /\ shapes' = s
    /\ lpc' = "dtm"
    /\ UNCHANGED <<zoneVars, refVars, storeVars, shapeVars, dtm_tif, dsm_tif,
                   dtm_data, shape_transform, dsm_data, dsm_transform, chm_data,
                   lerr>>

\* load_data(): self.dtm_data, self.shape_transform = mask(tiffile, shapes, ...)
MaskDtm ==
    /\ lpc = "dtm"
    /\ LET r == mask(dtm_tif, shapes)
       IN  IF r.ok
           THEN /\ dtm_data' = r.image
                /\ shape_transform' = r.transform
                /\ lpc' = "dsm"
                /\ lerr' = lerr
           ELSE /\ lpc' = "failed"
                /\ lerr' = r.err
                /\ UNCHANGED <<dtm_data, shape_transform>>
    /\ UNCHANGED <<zoneVars, refVars, storeVars, shapeVars, dtm_tif, dsm_tif,
                   shapes, dsm_data, dsm_transform, chm_data>>

\* load_data(): self.dsm_data, _ = rasterio.mask.mask(tiffile, shapes, ...)
MaskDsm ==
    /\ lpc = "dsm"
    /\ LET r == mask(dsm_tif, shapes)
       IN  IF r.ok
           THEN /\ dsm_data' = r.image
                /\ dsm_transform' = r.transform
                /\ lpc' = "chm"
                /\ lerr' = lerr
           ELSE /\ lpc' = "failed"
                /\ lerr' = r.err
                /\ UNCHANGED <<dsm_data, dsm_transform>>
    /\ UNCHANGED <<zoneVars, refVars, storeVars, shapeVars, dtm_tif, dsm_tif,
                   shapes, dtm_data, shape_transform, chm_data>>

\* load_data(): self.chm_data = self.dsm_data - self.dtm_data
CalcChm ==
    /\ lpc = "chm"
    /\ LET r == Subtract(dsm_data, dtm_data)
       IN  IF r.ok
           THEN /\ chm_data' = r.array
                /\ lpc' = "done"
                /\ lerr' = lerr
           ELSE /\ chm_data' = chm_data
                /\ lpc' = "failed"
                /\ lerr' = r.err
    /\ UNCHANGED <<zoneVars, refVars, storeVars, shapeVars, dtm_tif, dsm_tif,
                   shapes, dtm_data, shape_transform, dsm_data, dsm_transform>>

NextChm ==
    \/ \E s \in ShapeInputs : LoadShapes(s)
    \/ MaskDtm
    \/ MaskDsm
    \/ CalcChm

SpecChm == InitChm /\ [][NextChm]_vars

\* ------------------------------------------------------------------ get_building_shape
\* The building units of the registry, and the building each is part of
\* (the "gebouw" of the response to gebouweenheden/<unit>).
UnitIds == {"u1", "u2", "u3"}
UnitBuilding(bu) == IF bu = "u3" THEN "b2" ELSE "b1"

\* The outline of a building in a revision of the registry (the
\* "geometriePolygoon" of the response to gebouwen/<building>).
Outline(bid, revision) ==
    IF bid = "b1" THEN Square(revision, 0, revision + 2, 2)
    ELSE Square(revision + 4, 0, revision + 6, 3)

\* The lists Address.building_units may hold, the empty one included.
RECURSIVE SeqsUpTo(_, _)
SeqsUpTo(S, n) ==
    IF n = 0 THEN {<<>>}
    ELSE SeqsUpTo(S, n - 1)
            \cup {Append(s, x) : s \in {t \in SeqsUpTo(S, n - 1) : Len(t) = n - 1},
                                 x \in S}
UnitInputs == SeqsUpTo(UnitIds, MaxUnits)

\* building_ids, once the first loop has run over all the units.
BuildingIds(units) == {UnitBuilding(units[i]) : i \in 1..Len(units)}

MemoizedNever(attr) == FALSE

\* hasattr(self, "_building_polygons")
Memoized(attr) == attr # None

\* What an Address may be when get_building_shape() is first called.
InitShape ==
    /\ ZoneIdle
    /\ RefIdle
    /\ StoreIdle
    /\ GridIdle
    /\ building_units \in UnitInputs
    /\ registry = 0
    /\ building_polygons = None
    /\ calls = <<>>

\* The registry revises its geometries.
RegistryEdit ==
    /\ registry < MaxEdits
    /\ registry' = registry + 1
    /\ UNCHANGED <<zoneVars, refVars, storeVars, gridVars, building_units,
                   building_polygons, calls>>

\* One call get_building_shape().  With the attribute set, it is returned.
\* Otherwise one request is made per unit, in order, and then one per
\* building id of the set; the first response that is not ok raises
\* RuntimeError, and only after the last one is the attribute set.
\* requested is the number of requests made, asked the building ids that
\* were requested, failed whether the last response was not ok.
GetBuildingShape(requested, asked, failed) ==
    /\ Len(calls) < MaxShapeCalls
    /\ IF Memoized(building_polygons)
       THEN /\ requested = 0 /\ asked = {} /\ ~failed
            /\ calls' = Append(calls, [ok |-> TRUE, units |-> <<>>, buildings |-> {},
                                       result |-> building_polygons.series])
            /\ building_polygons' = building_polygons
       ELSE /\ IF requested =< Len(building_units)
               THEN asked = {}
               ELSE /\ asked \subseteq BuildingIds(building_units)
                    /\ Cardinality(asked) = requested - Len(building_units)
            /\ failed => requested > 0
            /\ ~failed =>
                  /\ requested >= Len(building_units)
                  /\ asked = BuildingIds(building_units)
            /\ IF failed
               THEN /\ calls' = Append(calls,
                           [ok |-> FALSE,
                            units |-> SubSeq(building_units, 1,
                                             Min({requested, Len(building_units)})),
                            buildings |-> asked, result |-> {}])
                    /\ building_polygons' = building_polygons
               ELSE LET polygons == {Outline(bid, registry) : bid \in asked}
                    IN  /\ calls' = Append(calls,
                               [ok |-> TRUE, units |-> building_units,
                                buildings |-> asked, result |-> polygons])
                        /\ building_polygons' = [series |-> polygons]
    /\ UNCHANGED <<zoneVars, refVars, storeVars, gridVars, building_units, registry>>

NextShape ==
    \/ RegistryEdit
    \/ \E requested \in 0..(2 * MaxUnits),
          asked \in SUBSET {UnitBuilding(bu) : bu \in UnitIds},
          failed \in BOOLEAN : GetBuildingShape(requested, asked, failed)

SpecShape == InitShape /\ [][NextShape]_vars

\* ------------------------------------------------------------------ claims
\* C1: a point strictly inside exactly one tile of the loaded dataset
\* resolves to that tile's zone id.
C1_InsideOneTile ==
    query # NoTuple =>
        LET inside == {i \in 1..Len(kbv) : contains(kbv[i][2], query)}
        IN  Cardinality(inside) = 1 =>
                \A i \in inside : zres = [ok |-> TRUE, zone |-> kbv[i][1]]

\* C1 witness: the scenario's point (25,25) resolved to tile 3 of the three
\* triangles.
C1_Witness ==
    /\ kbv = KbvTriangles
    /\ query = <<25, 25>>
    /\ zres = [ok |-> TRUE, zone |-> 3]

\* The point is outside every tile: in no tile's interior and on no
\* tile's boundary.
OutsideEveryTile(p) == \A i \in 1..Len(kbv) : ~covers(kbv[i][2], p)

OtherKind(k) == IF k = StrDSM THEN StrDTM ELSE StrDSM

\* C3: complement() gives a ref of the other layer kind that agrees in zone,
\* resolution, version and base directory, and complementing twice gives a
\* ref equal to the original in every field.
C3_ComplementInvolution ==
    /\ \A i \in 1..(Len(chain) - 1) :
          /\ chain[i + 1].data_type = OtherKind(chain[i].data_type)
          /\ chain[i + 1].data_type # chain[i].data_type
          /\ chain[i + 1].zone = chain[i].zone
          /\ chain[i + 1].res = chain[i].res
          /\ chain[i + 1].dhmv_version = chain[i].dhmv_version
          /\ chain[i + 1].base_path = chain[i].base_path
    /\ \A i \in 1..(Len(chain) - 2) : chain[i + 2] = chain[i]

\* C3 witness: a ref with non-default resolution, version and directory was
\* complemented twice.
C3_Witness ==
    /\ Len(chain) >= 3
    /\ cargs.res = Res5m /\ cargs.dhmv_version = VerI
    /\ cargs.path = <<"data", "", "tiff", "">>
    /\ chain[2].data_type = StrDTM
    /\ chain[3] = chain[1]

\* The zone segment of a name: the zone number in decimal, with a leading
\* zero when it has one digit.
ZoneSegment(z) == IF z < 10 THEN <<"0">> \o Digits(z) ELSE Digits(z)

\* The name without its zone segment: what precedes it and what follows it.
NameHead(ref) ==
    <<"D", "H", "M", "V">> \o ref.dhmv_version \o ref.data_type
        \o <<"R", "A", "S">> \o ref.res \o <<"_", "k">>

\* C4 as stated: the name is version, kind, "RAS", resolution, "_k", the
\* two-digit zone and the extension, concatenated.
C4_NameIsFieldsOnly ==
    fname # NoTuple =>
        fname[3] = fname[1].dhmv_version \o fname[1].data_type
                       \o <<"R", "A", "S">> \o fname[1].res \o <<"_", "k">>
                       \o ZoneSegment(fname[1].zone) \o fname[2]

\* C4 amended: the name is the literal "DHMV", then version, kind, "RAS",
\* resolution, "_k", the zone zero-padded to two digits and the extension;
\* the name of a ref that differs only in zone has the same head and the
\* same extension, and its own zone segment between them.
C4_CanonicalName ==
    fname # NoTuple =>
        /\ fname[3] = NameHead(fname[1]) \o ZoneSegment(fname[1].zone) \o fname[2]
        /\ \A z \in ZoneInputs :
              LET other == filename([fname[1] EXCEPT !.zone = z], fname[2])
                  h == Len(NameHead(fname[1]))
                  e == Len(fname[2])
              IN  /\ SubSeq(other, 1, h) = SubSeq(fname[3], 1, h)
                  /\ SubSeq(other, Len(other) - e + 1, Len(other)) = fname[2]
                  /\ SubSeq(other, h + 1, Len(other) - e) = ZoneSegment(z)
                  /\ SubSeq(fname[3], h + 1, Len(fname[3]) - e)
                         = ZoneSegment(fname[1].zone)

\* C4 witness: the name of the test's ref and of a one-digit zone.
C4_Witness ==
    /\ fname # NoTuple
    /\ fname[1].zone = 7 /\ fname[1].res = Res5m /\ fname[1].dhmv_version = VerII
    /\ fname[3] = <<"D", "H", "M", "V", "I", "I", "D", "S", "M", "R", "A", "S",
                    "5", "m", "_", "k", "0", "7", ".", "z", "i", "p">>

\* A data_type that names a layer kind, in any spelling of its letters.
NamesKind(dt) ==
    /\ Len(dt) = 3
    /\ dt[1] \in {"D", "d"}
    /\ dt[2] \in {"S", "s", "T", "t"}
    /\ dt[3] \in {"M", "m"}

\* C5: a constructor call whose data_type names no layer kind fails with
\* RuntimeWarning and yields no ref; every ref made by the constructor or
\* by complement() is DTM or DSM, and complement() never raises.
C5_LayerKindInvariant ==
    /\ (cargs # None /\ ~NamesKind(cargs.data_type)) =>
          (img = None /\ chain = <<>> /\ rerr = "RuntimeWarning")
    /\ (cargs # None /\ NamesKind(cargs.data_type)) => (img # None /\ rerr = NoErr)
    /\ \A i \in 1..Len(chain) : chain[i].data_type \in {StrDTM, StrDSM}
    /\ rerr # "RuntimeError"

\* C5 witness: a construction with data_type "CHM" has failed.
C5_Witness ==
    /\ cargs # None
    /\ cargs.data_type = <<"C", "H", "M">>
    /\ img = None
    /\ rerr = "RuntimeWarning"

\* A request that has been made with fetching not allowed.
NoFetchRequest(p) == req[p] # None /\ ~req[p].auto

C8_NoPartialAtFinalPath ==
    \A f \in StoreFiles :
        (\A p \in Procs : ~(pc[p] \in DownloadPcs /\ CurFile(p) = f)) =>
            fs[Tif(f)] \in {Absent, Complete}

\* The requests that hold the archive, or the raster, of a file open for
\* writing.
ZipWriters(f) == {p \in Procs : pc[p] = "stream" /\ CurFile(p) = f}
TifWriters(f) == {p \in Procs : pc[p] = "extract" /\ CurFile(p) = f}

\* C9: no two requests write the same raster, or the same archive, at the
\* same time.
C9_SingleWriterPerPath ==
    \A f \in StoreFiles :
        /\ Cardinality(ZipWriters(f)) =< 1
        /\ Cardinality(TifWriters(f)) =< 1

\* C10: between calls, a Building its caller holds has no terrain, surface
\* or canopy array, or has all three from one load.
C10_AllOrNothing ==
    \A p \in Procs :
        (returned[p] /\ pc[p] \in {"done", "failed"}) =>
            \/ data[p] = NoData
            \/ /\ data[p].dtm > 0
               /\ data[p].dsm = data[p].dtm
               /\ data[p].chm = data[p].dtm

\* Two arrays have the same shape.
SameShape(x, y) == x.h = y.h /\ x.w = y.w

\* C11: when the terrain grid and the surface grid, masked with the same
\* polygons, have the same shape, the combination succeeds, the canopy array
\* has that shape, and each of its cells is the surface cell minus the
\* terrain cell.
C11_CanopyIsDifference ==
    (dtm_data # None /\ dsm_data # None /\ lpc # "chm"
        /\ SameShape(dtm_data, dsm_data)) =>
            /\ lpc = "done"
            /\ lerr = NoErr
            /\ chm_data # None
            /\ SameShape(chm_data, dsm_data)
            /\ SameShape(chm_data, dtm_data)
            /\ \A c \in Cells(chm_data.h, chm_data.w) :
                  chm_data.v[c] = dsm_data.v[c] - dtm_data.v[c]

\* C11 witness: an all-5 terrain and an all-12 surface under a polygon that
\* covers the whole sheet have given an all-7 canopy array of the sheet's
\* shape.
C11_Witness ==
    /\ lpc = "done"
    /\ shapes = {Square(0, 0, TileEdge, TileEdge)}
    /\ dtm_data = [h |-> TileSide, w |-> TileSide,
                   v |-> [c \in Cells(TileSide, TileSide) |-> 5]]
    /\ dsm_data = [h |-> TileSide, w |-> TileSide,
                   v |-> [c \in Cells(TileSide, TileSide) |-> 12]]
    /\ chm_data = [h |-> TileSide, w |-> TileSide,
                   v |-> [c \in Cells(TileSide, TileSide) |-> 7]]

\* C12: when the masked terrain grid and the masked surface grid differ in
\* shape or in transform, the combination fails with ShapeMismatch and
\* there is no canopy array.
C12_ValidatesAlignment ==
    (dtm_data # None /\ dsm_data # None /\ lpc # "chm"
        /\ (~SameShape(dtm_data, dsm_data) \/ shape_transform # dsm_transform)) =>
            /\ lpc = "failed"
            /\ lerr = "ShapeMismatch"
            /\ chm_data = None

\* A cell value that stands for no data: the value mask() fills in for one
\* of the two rasters.
IsNoData(val) == val \in {FillValue(dtm_tif), FillValue(dsm_tif)}

\* C13: a cell that is no-data in the terrain grid or in the surface grid
\* is no-data in the canopy array.
C13_NoDataPropagates ==
    (chm_data # None /\ SameShape(dtm_data, dsm_data)) =>
        \A c \in Cells(chm_data.h, chm_data.w) :
            (dtm_data.v[c] = FillValue(dtm_tif) \/ dsm_data.v[c] = FillValue(dsm_tif))
                => IsNoData(chm_data.v[c])

\* The tiles whose boundary the point lies on, and the tiles it touches
\* (boundary or interior).
BoundaryTiles(p) ==
    {i \in 1..Len(kbv) : covers(kbv[i][2], p) /\ ~contains(kbv[i][2], p)}
TouchingTiles(p) == {i \in 1..Len(kbv) : covers(kbv[i][2], p)}

\* C14: a point on a boundary shared by two or more tiles resolves, without
\* failing, to the lowest zone id among the tiles that touch it.
C14_BoundaryLowestId ==
    (query # NoTuple /\ Cardinality(BoundaryTiles(query)) >= 2) =>
        zres = [ok |-> TRUE,
                zone |-> Min({kbv[i][1] : i \in TouchingTiles(query)})]

\* C15: when a download() call returns without error, the complete raster
\* is at full_path(), the archive at full_path(".zip") is gone, or is there
\* whole when keep_zip is true, and every other path under the base
\* directory holds what it held when the call began.
C15_DownloadPostcondition ==
    [][\A p \in Procs :
          (dl[p].direct /\ pc[p] \in DownloadPcs /\ pc'[p] = "done") =>
              /\ fs'[Tif(CurFile(p))] = Complete
              /\ fs'[Zip(CurFile(p))] = (IF dl[p].keep_zip THEN Archive ELSE Absent)
              /\ \A path \in (TifPaths \cup ZipPaths)
                                \ {Tif(CurFile(p)), Zip(CurFile(p))} :
                    fs'[path] = dl[p].before[path]]_vars

\* C15 witness: a download() call that removed its archive has returned,
\* its raster was not there before, and the other ref's raster and archive
\* are there from an earlier call that kept its archive.
C15_Witness ==
    \E p \in Procs, other \in StoreFiles :
        /\ dl[p].direct /\ ~dl[p].keep_zip /\ pc[p] = "done"
        /\ other # CurFile(p)
        /\ dl[p].before[Tif(CurFile(p))] = Absent
        /\ fs[Tif(CurFile(p))] = Complete /\ fs[Zip(CurFile(p))] = Absent
        /\ fs[Tif(other)] = Complete /\ fs[Zip(other)] = Archive

\* The requests a call made.
Lookups(call) == Len(call.units) + Cardinality(call.buildings)

\* C16: once a call has succeeded, every later call succeeds without a
\* request and returns the polygons of that first successful call; while no
\* call has succeeded nothing is stored, and the call after a failed one
\* makes the requests again from the first unit on.
C16_MemoizedFootprint ==
    /\ \A i \in 1..Len(calls), j \in 1..Len(calls) :
          (i < j /\ calls[i].ok) =>
              /\ calls[j].ok
              /\ Lookups(calls[j]) = 0
              /\ calls[j].result = calls[i].result
    /\ (\A i \in 1..Len(calls) : ~calls[i].ok) => building_polygons = None
    /\ \A i \in 1..(Len(calls) - 1) :
          ~calls[i].ok =>
              /\ Lookups(calls[i]) > 0
              /\ Lookups(calls[i + 1]) > 0
              /\ calls[i + 1].units # <<>>
              /\ calls[i + 1].units[1] = building_units[1]

\* C16 witness: on an Address of two units in two buildings, a first call
\* failed at its second request, a second call made all four requests and
\* succeeded, the registry then revised its geometries, and a third call
\* returned the second call's polygons without a request.
C16_Witness ==
    /\ building_units = <<"u3", "u1">>
    /\ Len(calls) = 3
    /\ ~calls[1].ok /\ Lookups(calls[1]) = 2
    /\ calls[2].ok /\ Lookups(calls[2]) = 4
    /\ calls[3].ok /\ Lookups(calls[3]) = 0
    /\ calls[3].result = calls[2].result
    /\ calls[3].result # {Outline(bid, registry) : bid \in {"b1", "b2"}}

=============================================================================
